---- MODULE Spec2Model ----
(***************************************************************************)
(* The airline assistant of day5_cleaned.py: the Gradio Blocks UI          *)
(* (do_entry, the chained chat call, the Clear button), the final chat     *)
(* function with its single tool round trip, handle_tool_call,             *)
(* get_ticket_price and the artist call.  The hosted services (chat        *)
(* completions, image generation) are nondeterministic: each call either   *)
(* returns one of a small set of responses or raises.                      *)
(***************************************************************************)
EXTENDS Integers, Sequences, FiniteSets, TLC

VARIABLES chatbot, image_output, jobs, pc, history, messages, message,
          image, city, calls, artistCalls, last, submitted

\* chatbot       the value of gr.Chatbot (line 506): the history shown and
\*               handed to do_entry and chat; it never holds the system turn
\* image_output  the value of gr.Image (line 507)
\* jobs          the chat calls triggered by .then (lines 517-519) and not yet
\*               finished, oldest first, each with the chatbot value it was
\*               given; the head is the one running
\* pc            where the running chat call waits: call1 (line 480),
\*               artist (line 488), call2 (line 489), or idle
\* history, messages, message, image, city
\*               the locals of the running chat call (lines 478-495); image
\*               is unbound before line 481 and held as None until then
\* calls         the completion calls the running chat call has made, each
\*               with its tools argument and message list
\* artistCalls   the cities the running chat call has passed to artist
\* last          the record of the chat call that finished last
\* submitted     number of submissions so far
vars == <<chatbot, image_output, jobs, pc, history, messages, message,
          image, city, calls, artistCalls, last, submitted>>

----------------------------------------------------------------------------
\* Bounds of the model.

\* Number of messages the user submits in one session.
MaxTurns == 2

\* Largest number of tool calls the provider puts in one tool request.
MaxCalls == 2

----------------------------------------------------------------------------
\* Values.

\* Python's None.
None == "None"

system_message == "You are a helpful assistant for an Airline called FlightAI. "
                  \o "Give short, courteous answers, no more than 1 sentence. "
                  \o "Always be accurate. If you don't know the answer, say so."

ticket_prices == [london |-> "$799", paris |-> "$899", tokyo |-> "$1400", berlin |-> "$499"]

price_function == [name |-> "get_ticket_price",
                   parameters |-> [required |-> <<"destination_city">>]]

tools == <<[type |-> "function", function |-> price_function]>>

\* The create call of line 489 passes no tools argument.
NoTools == <<>>

\* Texts the user types.
UserTexts == {"How much is a ticket to Paris?"}

\* Contents the provider answers with.
ReplyTexts == {"A ticket to Paris costs $899.", "I don't know."}

\* str.lower on the strings of the model.
Lower(s) ==
    CASE s = "Paris" -> "paris"
      [] s = "London" -> "london"
      [] s = "Atlantis" -> "atlantis"
      [] s = "Ritz" -> "ritz"
      [] OTHER -> s

----------------------------------------------------------------------------
\* JSON texts are sequences of tokens: the punctuation { } : , the word
\* null, and string literals, written with their quotes.

Quote(s) == "\"" \o s \o "\""

JsonStrings == {"destination_city", "price", "hotel", "Paris", "London",
                "Atlantis", "Ritz", "Unknown", "$799", "$899", "$1400", "$499"}

IsStrLit(tok) == \E s \in JsonStrings : tok = Quote(s)

Unquote(tok) == CHOOSE s \in JsonStrings : tok = Quote(s)

IsValue(tok) == tok = "null" \/ IsStrLit(tok)

ValueOf(tok) == IF tok = "null" THEN None ELSE Unquote(tok)

\* json.loads: a flat object, a lone string or null; anything else raises.
json_loads(text) ==
    LET n == Len(text)
        inner == IF n >= 2 THEN SubSeq(text, 2, n - 1) ELSE <<>>
        k == Len(inner)
        WellFormed ==
            /\ n >= 2
            /\ text[1] = "{"
            /\ text[n] = "}"
            /\ \/ k = 0
               \/ /\ k % 4 = 3
                  /\ \A i \in 1..k :
                        CASE i % 4 = 1 -> IsStrLit(inner[i])
                          [] i % 4 = 2 -> inner[i] = ":"
                          [] i % 4 = 3 -> IsValue(inner[i])
                          [] OTHER -> inner[i] = ","
        KeyAt == {i \in 1..k : i % 4 = 1}
        Keys == {Unquote(inner[i]) : i \in KeyAt}
        LastAt(key) == CHOOSE i \in KeyAt :
                          /\ Unquote(inner[i]) = key
                          /\ \A j \in KeyAt : Unquote(inner[j]) = key => j <= i
    IN  IF n = 1 /\ IsValue(text[1])
        THEN [raised |-> None, kind |-> "scalar", value |-> ValueOf(text[1])]
        ELSE IF WellFormed
        THEN [raised |-> None, kind |-> "object",
              value |-> [key \in Keys |-> ValueOf(inner[LastAt(key) + 2])]]
        ELSE [raised |-> "JSONDecodeError"]

JsonValue(v) == IF v = None THEN "null" ELSE Quote(v)

\* json.dumps({"destination_city": city, "price": price})
json_dumps(c, price) ==
    <<"{", Quote("destination_city"), ":", JsonValue(c), ",",
      Quote("price"), ":", JsonValue(price), "}">>

\* dict.get(key), None when the key is absent.
Get(d, key) == IF key \in DOMAIN d THEN d[key] ELSE None

----------------------------------------------------------------------------
\* What the completion provider can return.

ArgParis    == <<"{", Quote("destination_city"), ":", Quote("Paris"), "}">>
ArgLondon   == <<"{", Quote("destination_city"), ":", Quote("London"), "}">>
ArgAtlantis == <<"{", Quote("destination_city"), ":", Quote("Atlantis"), "}">>
ArgEmpty    == <<"{", "}">>
ArgNull     == <<"{", Quote("destination_city"), ":", "null", "}">>
ArgHotel    == <<"{", Quote("hotel"), ":", Quote("Ritz"), "}">>
ArgCut      == <<"{", Quote("destination_city"), ":", Quote("Paris")>>
ArgScalar   == <<Quote("Paris")>>

ArgTexts == {ArgParis, ArgAtlantis, ArgEmpty, ArgNull, ArgHotel, ArgCut, ArgScalar}

ToolNames == {"get_ticket_price", "book_hotel"}

\* The calls after the first of a tool request.
ExtraCall(i) == [id |-> IF i = 2 THEN "call_2" ELSE "call_n",
                 name |-> "get_ticket_price", arguments |-> ArgLondon]

ToolCalls(name, args, n) ==
    [i \in 1..n |-> IF i = 1 THEN [id |-> "call_1", name |-> name, arguments |-> args]
                    ELSE ExtraCall(i)]

DirectResponses ==
    {[finish_reason |-> f,
      message |-> [role |-> "assistant", content |-> c, tool_calls |-> <<>>]] :
        f \in {"stop", "length"}, c \in ReplyTexts}

ToolResponses ==
    {[finish_reason |-> "tool_calls",
      message |-> [role |-> "assistant", content |-> None,
                   tool_calls |-> ToolCalls(t[1], t[2], t[3])]] :
        t \in ToolNames \X ArgTexts \X (1..MaxCalls)}

----------------------------------------------------------------------------
\* The functions of the program.

\* A lookup that tolerates a missing city instead of raising on None.lower().
get_ticket_price_lenient(destination_city) ==
    IF destination_city = None
    THEN [raised |-> None, value |-> "Unknown"]
    ELSE LET c == Lower(destination_city)
         IN  [raised |-> None,
              value |-> IF c \in DOMAIN ticket_prices THEN ticket_prices[c] ELSE "Unknown"]

get_ticket_price(destination_city) ==
    IF destination_city = None
    THEN [raised |-> "AttributeError"]
    ELSE LET c == Lower(destination_city)
         IN  [raised |-> None,
              value |-> IF c \in DOMAIN ticket_prices THEN ticket_prices[c] ELSE "Unknown"]

\* The last call of the request served instead of the first.
FirstCall_last(msg) == msg.tool_calls[Len(msg.tool_calls)]

\* The tool call of a request that handle_tool_call serves.
FirstCall(msg) == msg.tool_calls[1]

handle_tool_call(msg) ==
    LET tool_call == FirstCall(msg)
        arguments == json_loads(tool_call.arguments)
        c == Get(arguments.value, "destination_city")
        price == get_ticket_price(c)
    IN  IF arguments.raised # None THEN [raised |-> arguments.raised]
        ELSE IF arguments.kind # "object" THEN [raised |-> "AttributeError"]
        ELSE IF price.raised # None THEN [raised |-> price.raised]
        ELSE [raised |-> None,
              response |-> [role |-> "tool",
                            content |-> json_dumps(c, price.value),
                            tool_call_id |-> tool_call.id],
              city |-> c]

\* artist(city), when the image service answers.
artist(c) == "image of " \o c

\* The message list built without the system turn.
BuildMessages_nosystem(h) == h

\* messages = [system] + history
BuildMessages(h) == <<[role |-> "system", content |-> system_message]>> \o h

\* The reply assigned to history instead of appended to it.
AddReply_assign(h, reply) == <<[role |-> "assistant", content |-> reply]>>

\* history += [{"role": "assistant", "content": reply}]
AddReply(h, reply) == h \o <<[role |-> "assistant", content |-> reply]>>

\* do_entry clearing the textbox without recording the user's message.
do_entry_dropped(m, h) == <<"", h>>

\* do_entry returns the new value of the textbox and of the chatbot.
do_entry(m, h) == <<"", h \o <<[role |-> "user", content |-> m]>>>>

IsToolCalls(response) == response.finish_reason = "tool_calls"

----------------------------------------------------------------------------
\* State.

NoMessage == [role |-> "assistant", content |-> None, tool_calls |-> <<>>]

NoTurn == [status |-> "none", error |-> None, before |-> <<>>, text |-> None,
           after |-> <<>>, returned |-> <<>>, image |-> None, calls |-> <<>>,
           artistCalls |-> <<>>, finish |-> None, message |-> NoMessage,
           reply |-> None, messages |-> <<>>]

Init ==
    /\ chatbot = <<>>
    /\ image_output = None
    /\ jobs = <<>>
    /\ pc = "idle"
    /\ history = <<>>
    /\ messages = <<>>
    /\ message = NoMessage
    /\ image = None
    /\ city = None
    /\ calls = <<>>
    /\ artistCalls = <<>>
    /\ last = NoTurn
    /\ submitted = 0

\* The running chat call is the head of the queue.
Job == Head(jobs)

\* chat returns (history, image): Gradio writes both outputs.
Return(h, img, finish, msg, msgs, reply, cs, as) ==
    /\ chatbot' = h
    /\ image_output' = img
    /\ jobs' = Tail(jobs)
    /\ pc' = "idle"
    /\ last' = [status |-> "returned", error |-> None, before |-> Job.before,
                text |-> Job.text, after |-> h, returned |-> h, image |-> img,
                calls |-> cs, artistCalls |-> as, finish |-> finish,
                message |-> msg, reply |-> reply, messages |-> msgs]

\* chat raises: Gradio reports the error and writes no output.
Raise(err, finish, msg, msgs, cs, as) ==
    /\ UNCHANGED <<chatbot, image_output>>
    /\ jobs' = Tail(jobs)
    /\ pc' = "idle"
    /\ last' = [status |-> "raised", error |-> err, before |-> Job.before,
                text |-> Job.text, after |-> chatbot, returned |-> <<>>,
                image |-> None, calls |-> cs, artistCalls |-> as,
                finish |-> finish, message |-> msg, reply |-> None,
                messages |-> msgs]

----------------------------------------------------------------------------
\* The user interface.

\* entry.submit(do_entry, ...).then(chat, inputs=chatbot, ...): do_entry runs
\* on the chatbot's value, its result is written back, and the chat call is
\* queued with the value the chatbot then has.
Submit(m) ==
    /\ submitted < MaxTurns
    /\ submitted' = submitted + 1
    /\ chatbot' = do_entry(m, chatbot)[2]
    /\ jobs' = Append(jobs, [before |-> chatbot, text |-> m, history |-> chatbot'])
    /\ UNCHANGED <<image_output, pc, history, messages, message, image, city,
                   calls, artistCalls, last>>

\* clear.click(lambda: None, outputs=chatbot, queue=False)
Clear ==
    /\ chatbot' = <<>>
    /\ UNCHANGED <<image_output, jobs, pc, history, messages, message, image,
                   city, calls, artistCalls, last, submitted>>

----------------------------------------------------------------------------
\* chat(history), one action per stretch of code between two service calls.

\* Lines 479-480: the message list is built and the first completion call,
\* which offers the tools, is sent.
ChatStart ==
    /\ pc = "idle"
    /\ jobs # <<>>
    /\ history' = Job.history
    /\ messages' = BuildMessages(Job.history)
    /\ calls' = <<[tools |-> tools, messages |-> messages']>>
    /\ message' = NoMessage
    /\ image' = None
    /\ city' = None
    /\ artistCalls' = <<>>
    /\ pc' = "call1"
    /\ UNCHANGED <<chatbot, image_output, jobs, last, submitted>>

\* The first completion call raises.
Complete1Fail ==
    /\ pc = "call1"
    /\ Raise("APIError", None, message, messages, calls, artistCalls)
    /\ UNCHANGED <<history, messages, message, image, city, calls, artistCalls,
                   submitted>>

\* Lines 481, 483, 491-495: a direct answer.
Complete1Direct(response) ==
    /\ pc = "call1"
    /\ ~IsToolCalls(response)
    /\ LET reply == response.message.content
       IN  /\ history' = AddReply(history, reply)
           /\ Return(history', None, response.finish_reason, message, messages,
                     reply, calls, artistCalls)
    /\ image' = None
    /\ UNCHANGED <<messages, message, city, calls, artistCalls, submitted>>

\* Lines 481-488: a tool request is served and the image is asked for.
Complete1Tool(response) ==
    /\ pc = "call1"
    /\ IsToolCalls(response)
    /\ message' = response.message
    /\ image' = None
    /\ LET r == handle_tool_call(response.message)
       IN  IF r.raised # None
           THEN /\ Raise(r.raised, response.finish_reason, message', messages,
                         calls, artistCalls)
                /\ UNCHANGED <<messages, city, artistCalls>>
           ELSE /\ city' = r.city
                /\ messages' = messages \o <<response.message, r.response>>
                /\ artistCalls' = Append(artistCalls, r.city)
                /\ pc' = "artist"
                /\ UNCHANGED <<chatbot, image_output, jobs, last>>
    /\ UNCHANGED <<history, calls, submitted>>

\* Lines 488-489: the image arrives and the second completion call, without
\* tools, is sent.
ArtistReturn ==
    /\ pc = "artist"
    /\ image' = artist(city)
    /\ calls' = Append(calls, [tools |-> NoTools, messages |-> messages])
    /\ pc' = "call2"
    /\ UNCHANGED <<chatbot, image_output, jobs, history, messages, message,
                   city, artistCalls, last, submitted>>

\* The image service raises.
ArtistFail ==
    /\ pc = "artist"
    /\ Raise("ImageError", "tool_calls", message, messages, calls, artistCalls)
    /\ UNCHANGED <<history, messages, message, image, city, calls, artistCalls,
                   submitted>>

\* Lines 491-495: the content of the second completion is the reply.
Complete2(response) ==
    /\ pc = "call2"
    /\ LET reply == response.message.content
       IN  /\ history' = AddReply(history, reply)
           /\ Return(history', image, "tool_calls", message, messages, reply,
                     calls, artistCalls)
    /\ UNCHANGED <<messages, message, image, city, calls, artistCalls, submitted>>

\* The second completion call raises.
Complete2Fail ==
    /\ pc = "call2"
    /\ Raise("APIError", "tool_calls", message, messages, calls, artistCalls)
    /\ UNCHANGED <<history, messages, message, image, city, calls, artistCalls,
                   submitted>>

Next ==
    \/ \E m \in UserTexts : Submit(m)
    \/ Clear
    \/ ChatStart
    \/ Complete1Fail
    \/ \E response \in DirectResponses : Complete1Direct(response)
    \/ \E response \in ToolResponses : Complete1Tool(response)
    \/ ArtistReturn
    \/ ArtistFail
    \/ \E response \in DirectResponses : Complete2(response)
    \/ Complete2Fail

Spec == Init /\ [][Next]_vars

TypeOK ==
    /\ pc \in {"idle", "call1", "artist", "call2"}
    /\ submitted \in 0..MaxTurns
    /\ Len(jobs) <= MaxTurns

----------------------------------------------------------------------------
\* Vocabulary of the properties.

UserTurn(m) == [role |-> "user", content |-> m]

AssistantTurn(c) == [role |-> "assistant", content |-> c]

Roles(msgs) == [i \in DOMAIN msgs |-> msgs[i].role]

\* Errors raised by the hosted services rather than by the program's code.
ServiceErrors == {"APIError", "ImageError"}

\* Names of the tools offered to the provider.
Registry == {tools[i].function.name : i \in DOMAIN tools}

\* The finished turn asked for a tool.
ToolTurn(t) == t.status # "none" /\ t.finish = "tool_calls"

\* The destination_city of an arguments text, None when it has none.
CueOf(args) ==
    CASE args = ArgParis -> "Paris"
      [] args = ArgLondon -> "London"
      [] args = ArgAtlantis -> "Atlantis"
      [] OTHER -> None

\* Every message list sent to the provider so far by the running chat call
\* and by the last finished one.
Submitted == {calls[i].messages : i \in DOMAIN calls}
             \cup {last.calls[i].messages : i \in DOMAIN last.calls}

OneSystem(msgs) ==
    /\ Len(msgs) >= 1
    /\ msgs[1].role = "system"
    /\ \A i \in 2..Len(msgs) : msgs[i].role # "system"

ToolTurnsAt(msgs) == {i \in DOMAIN msgs : msgs[i].role = "tool"}

ToolTurnsFollowRequest(msgs) ==
    \A i \in ToolTurnsAt(msgs) :
        /\ i > 1
        /\ msgs[i - 1].role = "assistant"
        /\ "tool_calls" \in DOMAIN msgs[i - 1]
        /\ Len(msgs[i - 1].tool_calls) >= 1
        /\ msgs[i].tool_call_id = msgs[i - 1].tool_calls[1].id

----------------------------------------------------------------------------
C2_DirectTurn ==
    (last.status = "returned" /\ last.finish # "tool_calls") =>
        /\ last.returned = last.before \o <<UserTurn(last.text), AssistantTurn(last.reply)>>
        /\ last.reply \in ReplyTexts
        /\ Len(last.calls) = 1
        /\ last.artistCalls = <<>>
        /\ last.image = None

C2_Witness ==
    /\ last.status = "returned"
    /\ last.finish = "stop"
    /\ Len(last.returned) = Len(last.before) + 2
    /\ image_output = None

C4_FailureLeavesTranscript ==
    (last.status = "raised" /\ last.error = "APIError") => last.after = last.before

\* C5 (as stated): a request for a tool that is not in the registry does not
\* raise; it yields a tool turn whose payload is no price lookup result, and
\* the follow-up completion is made.
C5_UnknownToolHandled ==
    (ToolTurn(last) /\ FirstCall(last.message).name \notin Registry) =>
        /\ last.status = "raised" => last.error \in ServiceErrors
        /\ Len(last.calls) = 2 =>
              \A i \in ToolTurnsAt(last.calls[2].messages) :
                  \A j \in DOMAIN last.calls[2].messages[i].content :
                      last.calls[2].messages[i].content[j] # Quote("price")

\* C6 (as stated): arguments that do not parse do not crash the turn.
C6_MalformedArgumentsHandled ==
    (ToolTurn(last) /\ FirstCall(last.message).arguments = ArgCut) =>
        /\ last.status = "raised" => last.error \in ServiceErrors
        /\ last.status = "returned" => Len(last.calls) = 2

\* C7: the image generator is invoked in a turn exactly when a tool call
\* carrying a destination_city was dispatched, and then once, with that
\* city; a direct turn and a call without destination_city invoke nothing.
C7_ArtifactIffCue ==
    /\ pc = "call1" => artistCalls = <<>>
    /\ pc \in {"artist", "call2"} =>
          /\ CueOf(FirstCall(message).arguments) # None
          /\ artistCalls = <<CueOf(FirstCall(message).arguments)>>
    /\ last.status # "none" =>
          last.artistCalls =
              IF ToolTurn(last) /\ CueOf(FirstCall(last.message).arguments) # None
              THEN <<CueOf(FirstCall(last.message).arguments)>>
              ELSE <<>>
    /\ last.status = "returned" =>
          last.image = IF last.artistCalls = <<>> THEN None
                       ELSE artist(last.artistCalls[1])

C7_Witness ==
    /\ last.status = "returned"
    /\ last.artistCalls = <<"Paris">>
    /\ image_output = "image of Paris"

\* The other side of C7: a dispatched call without destination_city.
C7_WitnessNoCue ==
    /\ ToolTurn(last)
    /\ FirstCall(last.message).arguments = ArgHotel
    /\ last.artistCalls = <<>>

\* C8: in every message list sent to the provider a tool turn comes right
\* after the assistant turn that requested it and carries the id of that
\* turn's first call; a request with several calls gets one tool turn, and
\* the further calls raise nothing.
C8_ToolTurnMatchesFirstCall ==
    /\ \A msgs \in Submitted : ToolTurnsFollowRequest(msgs)
    /\ pc # "idle" => ToolTurnsFollowRequest(messages)
    /\ pc \in {"artist", "call2"} => Cardinality(ToolTurnsAt(messages)) = 1
    /\ (ToolTurn(last) /\ Len(last.calls) = 2) =>
          Cardinality(ToolTurnsAt(last.calls[2].messages)) = 1
    /\ (ToolTurn(last) /\ last.status = "raised"
          /\ CueOf(FirstCall(last.message).arguments) # None) =>
          last.error \in ServiceErrors

C8_Witness ==
    /\ pc = "call2"
    /\ Len(message.tool_calls) >= 2
    /\ Cardinality(ToolTurnsAt(messages)) = 1
    /\ Len(history) > 1

\* The bounds of C9 that the code keeps: at most two completion calls and one
\* dispatch a turn, tools offered on the first call only.
C9_CallsBounded ==
    /\ Len(calls) <= 2
    /\ Len(artistCalls) <= 1
    /\ \A i \in DOMAIN calls : calls[i].tools = IF i = 1 THEN tools ELSE NoTools
    /\ Len(calls) = 2 => message.tool_calls # <<>>

\* C9 (as stated): a turn makes at most one dispatch and two completion
\* calls, the second without tools, and ends answered whenever the service
\* calls returned.
C9_EveryTurnAnswered ==
    /\ C9_CallsBounded
    /\ last.status = "raised" => last.error \in ServiceErrors

\* C10 (as stated): at most one turn is in flight on the transcript.
C10_OneTurnInFlight == Len(jobs) <= 1

====
